---- MODULE Spec2Model ----
(***************************************************************************)
(* Two subsystems of the telemetry engine:                                 *)
(*   - the pcap worker (package pcap): Worker.Process, Worker.Close,       *)
(*     Worker.GetCounter and the capture-file registry                     *)
(*     (writePacket, writePacketIpv6, generateWrappedWriter, finishWriter);*)
(*   - the UDP path of the flow generator (package flowgenerator):         *)
(*     processUdpPacket run by several threads on a sharded flow table.    *)
(* SpecPcap is the worker, SpecFlow the flow generator.                    *)
(*                                                                         *)
(* Representation of machine values.  The checker's integers are 32-bit    *)
(* signed, so a 32-bit unsigned IPv4Int is written as its four octets,     *)
(* most significant first, a 48-bit MacInt as its six octets, a net.IP as  *)
(* the sequence of its bytes (the nil net.IP is the empty sequence), and a *)
(* 64-bit WriterKey as the triple of its bit fields <<bits 63..32,         *)
(* bits 31..16, bits 15..0>>.                                              *)
(***************************************************************************)
EXTENDS Integers, Sequences, FiniteSets, TLC

(***************************************************************************)
(* Bounds of the model.                                                    *)
(***************************************************************************)
\* number of queue elements the input queue delivers to the worker in a run
MaxElems == 2
\* largest batch one Gets returns (QUEUE_BATCH_SIZE elements in the code)
MaxBatch == 2
\* packet timestamps and the wall clock range over 0..MaxTime
MaxTime == 2
\* number of GetCounter calls in a run
MaxSwaps == 1
\* number of system calls (NewWriter, Write, os.Rename) that fail in a run
MaxFailures == 1

\* threads that call processUdpPacket, and calls they make altogether
NumThreads == 2

MaxUdpPackets == 4

\* A run of the worker is either wide (MaxElems queue elements, with
\* GetCounter calls and failing system calls) or long (one element more,
\* without them).
WideQuota == [elems |-> MaxElems, swaps |-> MaxSwaps, failures |-> MaxFailures]

LongQuota == [elems |-> MaxElems + 1, swaps |-> 0, failures |-> 0]

Quotas == {WideQuota, LongQuota}

(***************************************************************************)
(* Configuration of the worker (newWorker).                                *)
(***************************************************************************)
maxConcurrentFiles == 2
maxFileSize == 2
maxFilePeriod == 1
\* w.index
tid == 0
\* time units per step of the formatted timestamp (TIME_FORMAT)
FormatUnit == 2

\* zerodoc.ToR
ToR == 3
\* number of values of zerodoc.TAPTypeEnum (an 8-bit enum)
TAPTypeRange == 256
ISP_BASE == 65536
TOR_BASE == 196608
PORT_SPAN == 65536

BROADCAST_MAC == <<255, 255, 255, 255, 255, 255>>
BROADCAST_IP == <<255, 255, 255, 255>>

Times == 0..MaxTime

(***************************************************************************)
(* Pure helpers.                                                           *)
(***************************************************************************)
RECURSIVE BitXor(_, _)
BitXor(a, b) ==
    IF a = 0 /\ b = 0 THEN 0
    ELSE (((a % 2) + (b % 2)) % 2) + 2 * BitXor(a \div 2, b \div 2)

\* net.IP.To4: the 4-byte form of an IPv4 or IPv4-mapped address, else nil
To4(ip) ==
    IF Len(ip) = 4 THEN ip
    ELSE IF /\ Len(ip) = 16
            /\ \A i \in 1..10 : ip[i] = 0
            /\ ip[11] = 255 /\ ip[12] = 255
         THEN <<ip[13], ip[14], ip[15], ip[16]>>
         ELSE <<>>

\* net.IP.Equal; a nil receiver (length 0) equals no 16-byte address
IPEqual(a, b) ==
    IF Len(a) = Len(b) THEN a = b
    ELSE IF Len(a) = 4 /\ Len(b) = 16 THEN To4(b) = a
    ELSE IF Len(a) = 16 /\ Len(b) = 4 THEN To4(a) = b
    ELSE FALSE

\* net.IP.IsMulticast
IsMulticast(ip) ==
    IF To4(ip) # <<>> THEN To4(ip)[1] \div 16 = 14
    ELSE Len(ip) = 16 /\ ip[1] = 255

\* utils.IpFromUint32: the four octets as a 4-byte net.IP
IpFromUint32(ipInt) == <<ipInt[1], ipInt[2], ipInt[3], ipInt[4]>>

\* utils.IpToUint32: the big-endian word at the start of the slice
IpToUint32(ip) ==
    IF Len(ip) = 0 THEN <<0, 0, 0, 0>> ELSE <<ip[1], ip[2], ip[3], ip[4]>>

isISP(inPort) == ISP_BASE <= inPort /\ inPort < ISP_BASE + PORT_SPAN

isTOR(inPort) == TOR_BASE <= inPort /\ inPort < TOR_BASE + PORT_SPAN

\* %012x of a 48-bit value: two hex digits per octet, i.e. the octets
macToString(mac) == <<"mac", mac>>

\* %03d%03d%03d%03d of uint8(ip>>24), uint8(ip>>16), uint8(ip>>8), uint8(ip)
ipToString(ip) == <<"ip4", ip[1] % 256, ip[2] % 256, ip[3] % 256, ip[4] % 256>>

\* net.IP.String of a 16-byte address that is not IPv4-mapped
ip6ToString(ip) == <<"ip6">> \o ip

\* "tor", "isp<N>", or a panic for a tap type above 30
tapTypeToString(tapType) ==
    IF tapType = ToR THEN <<"tor">>
    ELSE IF tapType >= 0 /\ tapType <= 30 THEN <<"isp", tapType>>
    ELSE <<"panic">>

\* time.Unix(0, d).Format(TIME_FORMAT): the timestamp cut to the format's unit
formatDuration(d) == d \div FormatUnit

getWriterIpv6Key(ip, aclGID, tapType) ==
    LET word(i) == [j \in 1..4 |-> ip[(4 * i) + j]]
        n == Len(ip) \div 4
        ipHash == [j \in 1..4 |->
                     IF n = 4
                     THEN BitXor(BitXor(word(0)[j], word(1)[j]),
                                 BitXor(word(2)[j], word(3)[j]))
                     ELSE IF n = 1 THEN word(0)[j] ELSE 0]
    IN <<ipHash, aclGID % 65536, tapType % 65536>>

getWriterKey(ipInt, aclGID, tapType) ==
    <<ipInt, aclGID % 65536, tapType % 65536>>

(***************************************************************************)
(* The capture-file registry of one worker, as a value                     *)
(*   R = [ws, writers, writersIpv6, counter, fs, panicked]                 *)
(* ws:          every WrappedWriter the worker created, by creation order  *)
(*              (a writer's id is its index); closes counts finishWriter   *)
(*              calls on it, so closes = 0 is an open writer;              *)
(* writers:     w.writers, WriterKey -> writer id;                         *)
(* writersIpv6: w.writersIpv6, WriterKey -> list of writer ids;            *)
(* counter:     the current *WorkerCounter block;                          *)
(* fs:          the files under baseDirectory, file name -> id of the      *)
(*              writer that created the file;                              *)
(* panicked:    a panic was raised (tapTypeToString).                      *)
(* env = [createOk, writeOk, failed] is what the operating system answers: *)
(* whether NewWriter and Write succeed, and the writers whose rename fails.*)
(***************************************************************************)
ZeroCounter ==
    [FileCreations |-> 0, FileCloses |-> 0, FileRejections |-> 0,
     FileCreationFailures |-> 0, FileWritingFailures |-> 0,
     BufferedCount |-> 0, BufferedBytes |-> 0]

AddCounter(a, b) ==
    [f \in DOMAIN a |-> a[f] + b[f]]

\* the name without the directory part is the same for both address kinds
TempName(tapType, mac, ipString, firstPacketTime, index) ==
    <<tapTypeToString(tapType), macToString(mac), ipString,
      formatDuration(firstPacketTime), -1, index, "pcap.temp">>

getTempFilename(tapType, mac, ip, firstPacketTime, index) ==
    TempName(tapType, mac, ipToString(ip), firstPacketTime, index)

getTempFilenameByIpv6(tapType, mac, ip, firstPacketTime, index) ==
    TempName(tapType, mac, ip6ToString(ip), firstPacketTime, index)

\* WrappedWriter.getTempFilename: base/<aclGID>/<name>
WriterTempFilename(w) ==
    IF w.ip6 = <<>>
    THEN <<w.aclGID>> \o getTempFilename(w.tapType, w.mac, w.ip, w.firstPacketTime, w.tid)
    ELSE <<w.aclGID>> \o getTempFilenameByIpv6(w.tapType, w.mac, w.ip6, w.firstPacketTime, w.tid)

\* WrappedWriter.getFilename
getFilename(w) ==
    LET ipString == IF w.ip6 = <<>> THEN ipToString(w.ip) ELSE ip6ToString(w.ip6)
    IN <<w.aclGID, tapTypeToString(w.tapType), macToString(w.mac), ipString,
         formatDuration(w.firstPacketTime), formatDuration(w.lastPacketTime),
         w.tid, "pcap">>

\* mutant: the size test is strict
shouldCloseFileStrict(writer, packet) ==
    \/ writer.size > maxFileSize
    \/ packet.Timestamp - writer.firstPacketTime > maxFilePeriod

\* mutant: the period test is not strict
shouldCloseFilePeriodGe(writer, packet) ==
    \/ writer.size >= maxFileSize
    \/ packet.Timestamp - writer.firstPacketTime >= maxFilePeriod

shouldCloseFile(writer, packet) ==
    \/ writer.size >= maxFileSize
    \/ packet.Timestamp - writer.firstPacketTime > maxFilePeriod

\* os.Rename(old, new): fails when the system says so or old does not exist
Rename(fs, old, new, ok) ==
    IF ok /\ old \in DOMAIN fs
    THEN [n \in (DOMAIN fs \ {old}) \cup {new} |-> IF n = new THEN fs[old] ELSE fs[n]]
    ELSE fs

RenameSucceeds(fs, old, ok) == ok /\ old \in DOMAIN fs

finishWriter(R, id, newFilename, ok) ==
    LET writer == R.ws[id]
    IN [R EXCEPT
          !.ws[id].closes = @ + 1,
          !.ws[id].renamed = RenameSucceeds(R.fs, writer.tempFilename, ok),
          !.ws[id].finalName = newFilename,
          !.fs = Rename(R.fs, writer.tempFilename, newFilename, ok),
          !.counter.FileCloses = @ + 1]

\* len(w.writers) >= w.maxConcurrentFiles
CapReached(R) == Cardinality(DOMAIN R.writers) >= maxConcurrentFiles

\* mutant: the rejection at the cap is counted as a creation
generateWrappedWriterCounts(R, ip, mac, tapType, aclGID, timestamp, env) ==
    [R |-> [R EXCEPT !.counter.FileCreations = @ + 1], id |-> 0]

\* returns [R, id]: id is the new writer, 0 for the nil result
generateWrappedWriter(R, ip, mac, tapType, aclGID, timestamp, env) ==
    IF CapReached(R)
    THEN [R |-> [R EXCEPT !.counter.FileRejections = @ + 1], id |-> 0]
    ELSE
      LET w0 == [tapType |-> tapType, aclGID |-> aclGID, mac |-> mac, tid |-> tid,
                 firstPacketTime |-> timestamp, lastPacketTime |-> timestamp,
                 ip |-> IF To4(ip) # <<>> THEN IpToUint32(ip) ELSE <<0, 0, 0, 0>>,
                 ip6 |-> IF To4(ip) # <<>> THEN <<>> ELSE ip,
                 tempFilename |-> <<>>, size |-> 0, closes |-> 0,
                 renamed |-> FALSE, finalName |-> <<>>,
                 viaIpv6 |-> Len(ip) = 16, nWrites |-> 0,
                 sizeBefore |-> 0, lastLen |-> 0]
          writer == [w0 EXCEPT !.tempFilename = WriterTempFilename(w0)]
          id == Len(R.ws) + 1
      IN IF tapTypeToString(tapType) = <<"panic">>
         THEN [R |-> [R EXCEPT !.panicked = TRUE], id |-> 0]
         ELSE IF ~env.createOk
         THEN [R |-> [R EXCEPT !.counter.FileCreationFailures = @ + 1], id |-> 0]
         ELSE [R |-> [R EXCEPT
                        !.ws = Append(@, writer),
                        !.fs = [n \in DOMAIN @ \cup {writer.tempFilename} |->
                                  IF n = writer.tempFilename THEN id ELSE @[n]],
                        !.counter.FileCreations = @ + 1],
               id |-> id]

\* writer.Write(packet), then the drain of the writer's statistics
WriteAndCount(R, id, packet, env) ==
    IF ~env.writeOk
    THEN [R EXCEPT !.counter.FileWritingFailures = @ + 1]
    ELSE [R EXCEPT
            !.ws[id].sizeBefore = R.ws[id].size,
            !.ws[id].lastLen = packet.PacketLen,
            !.ws[id].size = @ + packet.PacketLen,
            !.ws[id].nWrites = @ + 1,
            !.ws[id].lastPacketTime = packet.Timestamp,
            !.counter.BufferedCount = @ + 1,
            !.counter.BufferedBytes = @ + packet.PacketLen]

RemoveKey(f, key) == [k \in DOMAIN f \ {key} |-> f[k]]

PutKey(f, key, v) == [k \in DOMAIN f \cup {key} |-> IF k = key THEN v ELSE f[k]]

\* mutant: the lookup misses a registered writer
LookupWriterMiss(R, key) == 0

\* the registered writer of the key, 0 when the key is not in w.writers
LookupWriter(R, key) == IF key \in DOMAIN R.writers THEN R.writers[key] ELSE 0

\* returns [R, found, closed, created, target]
writePacket(R, packet, tapType, ip, mac, aclGID, env) ==
    LET key == getWriterKey(ip, aclGID, tapType)
        found == LookupWriter(R, key)
        close == found # 0 /\ shouldCloseFile(R.ws[found], packet)
        R1 == IF close
              THEN [finishWriter(R, found, getFilename(R.ws[found]), found \notin env.failed)
                      EXCEPT !.writers = RemoveKey(@, key)]
              ELSE R
        exist == found # 0 /\ ~close
        gen == generateWrappedWriter(R1, IpFromUint32(ip), mac, tapType, aclGID,
                                     packet.Timestamp, env)
        R2 == IF exist THEN R1
              ELSE IF gen.id = 0 THEN gen.R
              ELSE [gen.R EXCEPT !.writers = PutKey(@, key, gen.id)]
        target == IF exist THEN found ELSE gen.id
        R3 == IF target = 0 THEN R2 ELSE WriteAndCount(R2, target, packet, env)
    IN [R |-> R3, found |-> found, closed |-> close,
        created |-> IF exist THEN 0 ELSE gen.id, target |-> target]

\* the first writer of the list whose ip6 equals ip, 0 when there is none
RECURSIVE ScanList(_, _, _)
ScanList(R, list, ip) ==
    IF list = <<>> THEN 0
    ELSE IF IPEqual(R.ws[Head(list)].ip6, ip) THEN Head(list)
    ELSE ScanList(R, Tail(list), ip)

RemoveFromList(list, id) == SelectSeq(list, LAMBDA x : x # id)

\* returns [R, found, closed, created, target]; target is the result writer
getWrappedWriter(R, ip, mac, tapType, aclGID, packet, env) ==
    LET key == getWriterIpv6Key(ip, aclGID, tapType)
        exist == key \in DOMAIN R.writersIpv6
        R0 == IF exist THEN R ELSE [R EXCEPT !.writersIpv6 = PutKey(@, key, <<>>)]
        found == IF exist THEN ScanList(R, R.writersIpv6[key], ip) ELSE 0
        close == found # 0 /\ shouldCloseFile(R.ws[found], packet)
        R1 == IF close
              THEN [finishWriter(R0, found, getFilename(R.ws[found]), found \notin env.failed)
                      EXCEPT !.writersIpv6[key] = RemoveFromList(@, found)]
              ELSE R0
        keep == found # 0 /\ ~close
        gen == generateWrappedWriter(R1, ip, mac, tapType, aclGID, packet.Timestamp, env)
        R2 == IF keep THEN R1
              ELSE IF gen.id = 0 THEN gen.R
              ELSE [gen.R EXCEPT !.writersIpv6[key] = Append(@, gen.id)]
    IN [R |-> R2, found |-> found, closed |-> close,
        created |-> IF keep THEN 0 ELSE gen.id,
        target |-> IF keep THEN found ELSE gen.id]

writePacketIpv6(R, packet, tapType, ip, mac, aclGID, env) ==
    LET got == getWrappedWriter(R, ip, mac, tapType, aclGID, packet, env)
    IN IF got.target = 0 THEN got
       ELSE [got EXCEPT !.R = WriteAndCount(got.R, got.target, packet, env)]

(***************************************************************************)
(* The queue elements of the model: the tick (nil) and a family of         *)
(* MetaPackets chosen to reach every branch of Worker.Process.             *)
(***************************************************************************)
Ip6Bytes(b1, b11, b12, b16) ==
    [i \in 1..16 |-> IF i = 1 THEN b1 ELSE IF i = 11 THEN b11
                     ELSE IF i = 12 THEN b12 ELSE IF i = 16 THEN b16 ELSE 0]

IP_A == <<10, 0, 0, 1>>
IP_B == <<10, 0, 0, 2>>
MAC_A == <<0, 0, 0, 0, 0, 1>>
MAC_B == <<0, 0, 0, 0, 0, 2>>
MAC_C == <<0, 0, 0, 0, 0, 3>>
\* ::1 and ::0.1.0.0 (bytes 12 and 16 swapped): same 32-bit XOR hash
IP6_U1 == Ip6Bytes(0, 0, 0, 1)
IP6_U2 == Ip6Bytes(0, 0, 1, 0)
\* ::ffff:0.0.0.1, an IPv4-mapped address
IP6_MAPPED == Ip6Bytes(0, 255, 255, 1)
\* ff00::1, a multicast address
IP6_MC == Ip6Bytes(255, 0, 0, 1)

\* one side of a packet: addresses, the packet's L2End flag and the
\* EndpointInfo of that side
Side(ip, ip6, mac, local) ==
    [ip |-> ip, ip6 |-> ip6, mac |-> mac, l2end |-> local,
     info |-> [L3EpcId |-> IF local THEN 1 ELSE 0, L2End |-> local]]

SideA == Side(IP_A, IP6_U1, MAC_A, TRUE)
SideB == Side(IP_B, IP6_U2, MAC_B, TRUE)
SideMapped == Side(IP_A, IP6_MAPPED, MAC_A, TRUE)
\* broadcast in IPv4, multicast in IPv6
SideCast == Side(BROADCAST_IP, IP6_MC, MAC_C, TRUE)
SideBroadcastMac == Side(IP_B, IP6_U2, BROADCAST_MAC, TRUE)
SideRemote == Side(IP_B, IP6_U2, MAC_B, FALSE)

Capture(gid) == [ACLGID |-> gid, ActionFlags |-> {"PACKET_CAPTURING"}]
Counting(gid) == [ACLGID |-> gid, ActionFlags |-> {"PACKET_COUNTING"}]

Pkt(ts, inPort, eth, src, dst, hasPolicy, hasEndpoint, acts, len) ==
    [Timestamp |-> ts, InPort |-> inPort, EthType |-> eth,
     IpSrc |-> src.ip, IpDst |-> dst.ip, Ip6Src |-> src.ip6, Ip6Dst |-> dst.ip6,
     MacSrc |-> src.mac, MacDst |-> dst.mac,
     L2End0 |-> src.l2end, L2End1 |-> dst.l2end,
     EndpointData |-> [isNil |-> ~hasEndpoint, SrcInfo |-> src.info, DstInfo |-> dst.info],
     PolicyData |-> [isNil |-> ~hasPolicy, AclActions |-> acts],
     PacketLen |-> len]

PORT_TOR == TOR_BASE + 1
PORT_ISP1 == ISP_BASE + 1
PORT_ISP3 == ISP_BASE + 3
PORT_ISP31 == ISP_BASE + 31
PORT_OTHER == 131072

Packets ==
    \* one emitted address: rotation by size and by period, both families
    {Pkt(tl[1], PORT_TOR, eth, SideA, SideCast, TRUE, TRUE, <<Capture(1)>>, tl[2]) :
        tl \in {<<0, 1>>, <<0, 2>>, <<1, 1>>, <<MaxTime, 1>>}, eth \in {"IPv4", "IPv6"}}
    \cup
    \* two emitted addresses and two capture actions: four write calls
    {Pkt(0, PORT_TOR, eth, SideA, SideB, TRUE, TRUE, <<Capture(1), Capture(2)>>, 1) :
        eth \in {"IPv4", "IPv6"}}
    \cup
    \* an IPv4-mapped IPv6 address
    {Pkt(ts, PORT_TOR, "IPv6", SideMapped, SideCast, TRUE, TRUE, <<Capture(1)>>, 1) :
        ts \in {0, 1}}
    \cup
    \* the ingress port
    {Pkt(0, port, "IPv4", SideA, SideCast, TRUE, TRUE, <<Capture(1)>>, 1) :
        port \in {PORT_ISP1, PORT_ISP3, PORT_ISP31, PORT_OTHER}}
    \cup
    {Pkt(0, PORT_ISP1, "IPv6", SideA, SideCast, TRUE, TRUE, <<Capture(1)>>, 1)}
    \cup
    \* two emitted addresses from an ingress port of tap type 31
    {Pkt(0, PORT_ISP31, "IPv4", SideA, SideB, TRUE, TRUE, <<Capture(1)>>, 1)}
    \cup
    \* the policy actions
    {Pkt(0, PORT_TOR, "IPv4", SideA, SideCast, TRUE, TRUE, acts, 1) :
        acts \in {<<>>, <<Capture(0)>>, <<Counting(1), Capture(2)>>}}
    \cup
    \* nil PolicyData, nil EndpointData, and an empty emit set
    {Pkt(0, PORT_TOR, "IPv4", SideA, SideCast, FALSE, TRUE, <<>>, 1),
     Pkt(0, PORT_TOR, "IPv4", SideA, SideCast, TRUE, FALSE, <<Capture(1)>>, 1),
     Pkt(0, PORT_TOR, "IPv4", SideRemote, SideBroadcastMac, TRUE, TRUE, <<Capture(1)>>, 1)}

\* the value of the packet variable while no packet is in hand
NoPacket == Pkt(0, 0, "IPv4", SideRemote, SideRemote, FALSE, FALSE, <<>>, 0)

(***************************************************************************)
(* Routing of one packet in Worker.Process: the tap type and the emit set  *)
(* (lines 367-416), then one write call per capturing action and emitted   *)
(* address (lines 418-433).                                                *)
(***************************************************************************)
Routed(packet) == isISP(packet.InPort) \/ isTOR(packet.InPort)

TapTypeOf(packet) ==
    IF isISP(packet.InPort) THEN (packet.InPort - ISP_BASE) % TAPTypeRange ELSE ToR

\* ips/macs or ip6s/macs, as a sequence of pairs
EmitSet(packet) ==
    LET v4 == packet.EthType # "IPv6"
        srcOn == IF isISP(packet.InPort)
                 THEN packet.EndpointData.SrcInfo.L3EpcId # 0
                 ELSE packet.L2End0 \/ packet.EndpointData.SrcInfo.L2End
        dstOn == IF isISP(packet.InPort)
                 THEN packet.EndpointData.DstInfo.L3EpcId # 0
                 ELSE packet.L2End1 \/ packet.EndpointData.DstInfo.L2End
        srcIp == IF v4 THEN packet.IpSrc # BROADCAST_IP
                 ELSE IF isISP(packet.InPort) THEN IsMulticast(packet.Ip6Src)
                 ELSE ~IsMulticast(packet.Ip6Src)
        dstIp == IF v4 THEN packet.IpDst # BROADCAST_IP
                 ELSE IF isISP(packet.InPort) THEN IsMulticast(packet.Ip6Dst)
                 ELSE ~IsMulticast(packet.Ip6Dst)
        src == IF srcOn /\ srcIp /\ packet.MacSrc # BROADCAST_MAC
               THEN <<[ip |-> IF v4 THEN packet.IpSrc ELSE packet.Ip6Src,
                       mac |-> packet.MacSrc]>>
               ELSE <<>>
        dst == IF dstOn /\ dstIp /\ packet.MacDst # BROADCAST_MAC
               THEN <<[ip |-> IF v4 THEN packet.IpDst ELSE packet.Ip6Dst,
                       mac |-> packet.MacDst]>>
               ELSE <<>>
    IN src \o dst

Capturing(policy) ==
    policy.ACLGID > 0 /\ "PACKET_CAPTURING" \in policy.ActionFlags

\* the write calls of one packet, in the order Process makes them
WriteCalls(packet) ==
    LET acts == SelectSeq(packet.PolicyData.AclActions, Capturing)
        emit == EmitSet(packet)
        n == Len(emit)
    IN [k \in 1..(Len(acts) * n) |->
          [aclGID |-> acts[((k - 1) \div n) + 1].ACLGID,
           ip |-> emit[((k - 1) % n) + 1].ip,
           mac |-> emit[((k - 1) % n) + 1].mac,
           tapType |-> TapTypeOf(packet),
           v6 |-> packet.EthType = "IPv6"]]

(***************************************************************************)
(* State of the pcap worker.                                               *)
(*                                                                         *)
(* The batch elements[:n] is held as the sequence of its elements' kinds   *)
(* (TRUE for a nil element, the tick); the content of a packet is drawn    *)
(* when the range loop reaches it, which is when Process first reads it.   *)
(***************************************************************************)
VARIABLES
    ws,            \* every WrappedWriter created so far (see above)
    writers,       \* Worker.writers
    writersIpv6,   \* Worker.writersIpv6
    counter,       \* Worker.WorkerCounter, the current block
    retrieved,     \* sum of the counter blocks GetCounter handed out
    swaps,         \* number of GetCounter calls so far
    fs,            \* files on disk
    panicked,      \* Process was aborted by a panic
    elements,      \* the batch Gets returned: elements[i] = TRUE for a tick
    idx,           \* number of elements of the batch the range loop has done
    packet,        \* the packet in hand while its write calls are made
    pending,       \* write calls of that packet not yet made
    timeNow,       \* timeNow of the current pass
    delivered,     \* number of elements the queue has delivered
    pc,            \* position of Process
    exiting,       \* Worker.exiting
    exited,        \* Worker.exited
    exitWg,        \* counter of Worker.exitWg
    closePc,       \* position of Close
    released,      \* per element of the batch: ReleaseMetaPacket calls on it
    earlierOnce,   \* every packet of the earlier batches was released once
    lastOp,        \* record of the most recent writePacket(Ipv6) call
    failures,      \* number of system calls that failed so far
    quota          \* what the environment of this run may do (see Quotas)

pcapVars == <<ws, writers, writersIpv6, counter, retrieved, swaps, fs, panicked,
              elements, idx, packet, pending, timeNow, delivered, pc, exiting,
              exited, exitWg, closePc, released, earlierOnce, lastOp, failures,
              quota>>

regVars == <<ws, writers, writersIpv6, counter, fs, panicked>>

(***************************************************************************)
(* The flow generator (flow_udp.go): its state.                            *)
(***************************************************************************)
VARIABLES
    hashMap,       \* FlowGenerator.hashMap: per shard, the flows in insertion order
    locks,         \* per shard: the thread that holds flowCache's lock, 0 if free
    stats,         \* FlowGenerator.stats
    th,            \* per thread: its position in processUdpPacket and its locals
    processed,     \* number of processUdpPacket calls begun
    lastUdp        \* record of the most recent call that matched or dropped

flowVars == <<hashMap, locks, stats, th, processed, lastUdp>>

vars == <<pcapVars, flowVars>>

hashMapSize == 2

flowLimitNum == 2

Threads == 1..NumThreads

Shards == 0..(hashMapSize - 1)

FLOW_STATE_ESTABLISHED == "ESTABLISHED"

\* TimeoutConfig.Opening and TimeoutConfig.EstablishedRst
TimeoutOpening == "Opening"

TimeoutEstablishedRst == "EstablishedRst"

ZeroStats == [CurrNumFlows |-> 0, TotalNumFlows |-> 0, FloodDropPackets |-> 0]

\* the endpoints (address and port) a packet's 5-tuple is made of
Endpoints == 1..4

\* the packets offered to processUdpPacket, of four 5-tuples and their
\* reversals: endpoints {1,3} and {2,4} fall into shard 0, {1,2} and {3,4}
\* into shard 1; a packet from the lower to
\* the higher endpoint has length 1, one the other way length 2
UdpMetas(ts) ==
    {[src |-> e[1], dst |-> e[2], Timestamp |-> ts,
      PacketLen |-> IF e[1] < e[2] THEN 1 ELSE 2] :
        e \in {x \in Endpoints \X Endpoints : x[1] # x[2] /\ x[1] + x[2] # 5}}

NoMeta == [src |-> 0, dst |-> 0, Timestamp |-> 0, PacketLen |-> 0]

\* f.getQuinTupleHash(meta): the same for both directions of a 5-tuple
getQuinTupleHash(meta) == meta.src + meta.dst

ShardOf(meta) == getQuinTupleHash(meta) % hashMapSize

Forward(flow, meta) == flow.src = meta.src /\ flow.dst = meta.dst

Reverse(flow, meta) == flow.src = meta.dst /\ flow.dst = meta.src

\* f.keyMatch(flowCache, meta): the index of the first flow of the shard
\* that matches in either direction (0 for nil), and reply
keyMatch(flowCache, meta) ==
    LET hits == {i \in 1..Len(flowCache) :
                    Forward(flowCache[i], meta) \/ Reverse(flowCache[i], meta)}
        first == IF hits = {} THEN 0
                 ELSE CHOOSE i \in hits : \A j \in hits : i <= j
    IN [index |-> first,
        reply |-> first # 0 /\ ~Forward(flowCache[first], meta)]

ZeroPeer ==
    [ArrTime0 |-> 0, ArrTimeLast |-> 0, TotalPacketCount |-> 0, PacketCount |-> 0,
     TotalByteCount |-> 0, ByteCount |-> 0]

\* f.initFlow(meta, now)
initFlow(meta, now) ==
    [src |-> meta.src, dst |-> meta.dst,
     FlowMetricsPeerSrc |-> ZeroPeer, FlowMetricsPeerDst |-> ZeroPeer,
     flowState |-> "", timeout |-> ""]

\* lines 29-43
initUdpFlow(meta) ==
    LET now == meta.Timestamp
        flowExtra == initFlow(meta, now)
    IN [flowExtra EXCEPT
          !.FlowMetricsPeerSrc =
              [ArrTime0 |-> now, ArrTimeLast |-> now,
               TotalPacketCount |-> 1, PacketCount |-> 1,
               TotalByteCount |-> meta.PacketLen, ByteCount |-> meta.PacketLen],
          !.flowState = FLOW_STATE_ESTABLISHED,
          !.timeout = TimeoutOpening]

UpdatePeer(peer, meta) ==
    [peer EXCEPT
       !.ArrTime0 = IF peer.TotalPacketCount = 0 THEN meta.Timestamp ELSE @,
       !.ArrTimeLast = meta.Timestamp,
       !.TotalPacketCount = @ + 1,
       !.PacketCount = @ + 1,
       !.TotalByteCount = @ + meta.PacketLen,
       !.ByteCount = @ + meta.PacketLen]

\* f.updateFlow(flowExtra, meta, reply): the counters of the peer reply selects
updateFlow(flowExtra, meta, reply) ==
    IF reply
    THEN [flowExtra EXCEPT !.FlowMetricsPeerDst = UpdatePeer(@, meta)]
    ELSE [flowExtra EXCEPT !.FlowMetricsPeerSrc = UpdatePeer(@, meta)]

\* mutant: the timeout is shortened whether or not the packet is a reply
updateUdpFlowAlways(flowExtra, meta, reply) ==
    [updateFlow(flowExtra, meta, reply) EXCEPT !.timeout = TimeoutEstablishedRst]

\* lines 45-50
updateUdpFlow(flowExtra, meta, reply) ==
    LET updated == updateFlow(flowExtra, meta, reply)
    IN IF reply
       THEN [updated EXCEPT !.timeout = TimeoutEstablishedRst]
       ELSE updated

\* f.addFlow(flowCache, flowExtra)
addFlow(flowCache, flowExtra) == Append(flowCache, flowExtra)

Idle == [pc |-> "idle", meta |-> NoMeta, read |-> 0]

NoUdp == [kind |-> "none"]

InitFlow ==
    /\ hashMap = [s \in Shards |-> <<>>]
    /\ locks = [s \in Shards |-> 0]
    /\ stats = ZeroStats
    /\ th = [t \in Threads |-> Idle]
    /\ processed = 0
    /\ lastUdp = NoUdp

Reg ==
    [ws |-> ws, writers |-> writers, writersIpv6 |-> writersIpv6,
     counter |-> counter, fs |-> fs, panicked |-> panicked]

SetReg(R) ==
    /\ ws' = R.ws
    /\ writers' = R.writers
    /\ writersIpv6' = R.writersIpv6
    /\ counter' = R.counter
    /\ fs' = R.fs
    /\ panicked' = R.panicked

NoOp == [kind |-> "none"]

\* newWorker, and Process and Close not yet begun
InitPcap ==
    /\ ws = <<>>
    /\ writers = <<>>
    /\ writersIpv6 = <<>>
    /\ counter = ZeroCounter
    /\ retrieved = ZeroCounter
    /\ swaps = 0
    /\ fs = <<>>
    /\ panicked = FALSE
    /\ elements = <<>>
    /\ idx = 0
    /\ packet = NoPacket
    /\ pending = <<>>
    /\ timeNow = 0
    /\ delivered = 0
    /\ pc = "loop"
    /\ exiting = FALSE
    /\ exited = FALSE
    /\ exitWg = 0
    /\ closePc = "idle"
    /\ released = <<>>
    /\ earlierOnce = TRUE
    /\ lastOp = NoOp
    /\ failures = 0

RECURSIVE SetToSeq(_)
SetToSeq(S) ==
    IF S = {} THEN <<>>
    ELSE LET m == CHOOSE x \in S : \A y \in S : x <= y
         IN <<m>> \o SetToSeq(S \ {m})

RECURSIVE FinishAll(_, _, _)
FinishAll(R, ids, failed) ==
    IF ids = <<>> THEN R
    ELSE FinishAll(finishWriter(R, Head(ids), getFilename(R.ws[Head(ids)]),
                                Head(ids) \notin failed),
                   Tail(ids), failed)

MapIds(R) == {R.writers[k] : k \in DOMAIN R.writers}

ListIds(R) ==
    UNION {{R.writersIpv6[k][i] : i \in 1..Len(R.writersIpv6[k])} :
             k \in DOMAIN R.writersIpv6}

Aged(R, id, now) == now - R.ws[id].firstPacketTime > maxFilePeriod

\* the tick of lines 337-355: finish and remove the aged writers
TickRotate(R, now, failed) ==
    LET aged4 == {id \in MapIds(R) : Aged(R, id, now)}
        aged6 == {id \in ListIds(R) : Aged(R, id, now)}
        R1 == FinishAll(R, SetToSeq(aged4), failed)
        R2 == FinishAll(R1, SetToSeq(aged6), failed)
    IN [R2 EXCEPT
          !.writers = [k \in {k \in DOMAIN @ : @[k] \notin aged4} |-> @[k]],
          !.writersIpv6 = [k \in DOMAIN @ |-> SelectSeq(@[k], LAMBDA x : x \notin aged6)]]

\* mutant: the IPv6 buckets are forgotten at shutdown
FinishRegisteredMapOnly(R, failed) ==
    FinishAll(R, SetToSeq(MapIds(R)), failed)

\* lines 439-449: finish every registered writer
FinishRegistered(R, failed) ==
    FinishAll(FinishAll(R, SetToSeq(MapIds(R)), failed), SetToSeq(ListIds(R)), failed)

\* the sets of writers whose rename the system may fail
MayFail ==
    {F \in SUBSET (MapIds(Reg) \cup ListIds(Reg)) :
        Cardinality(F) <= quota.failures - failures}

\* what the system may answer to the calls of one writePacket(Ipv6)
Envs ==
    {[createOk |-> TRUE, writeOk |-> TRUE, failed |-> {}]}
    \cup
    (IF failures < quota.failures
     THEN {[createOk |-> FALSE, writeOk |-> TRUE, failed |-> {}],
           [createOk |-> TRUE, writeOk |-> FALSE, failed |-> {}]}
          \cup {[createOk |-> TRUE, writeOk |-> TRUE, failed |-> {id}] :
                   id \in MapIds(Reg) \cup ListIds(Reg)}
     ELSE {})

\* the failures that took effect between registry R and its successor S
Failed(R, S, failed) ==
    (S.counter.FileCreationFailures - R.counter.FileCreationFailures)
    + (S.counter.FileWritingFailures - R.counter.FileWritingFailures)
    + Cardinality({id \in failed : S.ws[id].closes > R.ws[id].closes})

\* the range loop moves to the next element, or the pass ends
Advance ==
    /\ idx' = idx + 1
    /\ pc' = IF idx + 1 = Len(elements) THEN "loop" ELSE "batch"
    /\ timeNow' = IF idx + 1 = Len(elements) THEN 0 ELSE timeNow

Release == released' = [released EXCEPT ![idx + 1] = @ + 1]

BatchReleasedOnce ==
    \A i \in 1..Len(elements) : elements[i] \/ released[i] = 1

\* n := w.inputQueue.Gets(...), entered because !w.exiting;
\* timeNow := time.Now()
Gets ==
    /\ UNCHANGED <<flowVars, quota>>
    /\ pc = "loop"
    /\ ~exiting
    /\ delivered < quota.elems
    /\ \E n \in 1..MaxBatch :
         /\ n <= quota.elems - delivered
         /\ delivered' = delivered + n
         /\ released' = [i \in 1..n |-> 0]
         /\ \E batch \in [1..n -> BOOLEAN], now \in Times :
              /\ elements' = batch
              \* timeNow is read by the ticks of the batch only
              /\ timeNow' = IF \E i \in 1..n : batch[i] THEN now ELSE 0
    /\ earlierOnce' = (earlierOnce /\ BatchReleasedOnce)
    /\ idx' = 0
    /\ pc' = "batch"
    /\ UNCHANGED <<regVars, retrieved, swaps, packet, pending, exiting, exited,
                   exitWg, closePc, lastOp, failures>>

\* the loop condition fails: w.exiting is set at the head of the loop
LoopExit ==
    /\ UNCHANGED <<flowVars, quota>>
    /\ pc = "loop"
    /\ exiting
    /\ pc' = "shutdown"
    /\ UNCHANGED <<regVars, retrieved, swaps, elements, idx, packet, pending,
                   timeNow, delivered, exiting, exited, exitWg, closePc, released,
                   earlierOnce, lastOp, failures>>

\* a tick with w.exiting set: break WORKING_LOOP
TickExit ==
    /\ UNCHANGED <<flowVars, quota>>
    /\ pc = "batch"
    /\ elements[idx + 1]
    /\ exiting
    /\ pc' = "shutdown"
    /\ UNCHANGED <<regVars, retrieved, swaps, elements, idx, packet, pending,
                   timeNow, delivered, exiting, exited, exitWg, closePc, released,
                   earlierOnce, lastOp, failures>>

\* a tick: rotation of the aged writers
TickRotation ==
    /\ UNCHANGED <<flowVars, quota>>
    /\ pc = "batch"
    /\ elements[idx + 1]
    /\ ~exiting
    /\ \E failed \in MayFail :
         /\ SetReg(TickRotate(Reg, timeNow, failed))
         /\ failures' = failures + Failed(Reg, TickRotate(Reg, timeNow, failed), failed)
    /\ Advance
    /\ UNCHANGED <<retrieved, swaps, elements, packet, pending, delivered,
                   exiting, exited, exitWg, closePc, released, earlierOnce, lastOp>>

\* a packet with nil PolicyData or EndpointData, or from a port that is
\* neither ISP nor ToR: released and skipped
DropPacket ==
    /\ UNCHANGED <<flowVars, quota>>
    /\ pc = "batch"
    /\ ~elements[idx + 1]
    /\ \E p \in Packets :
         \/ p.PolicyData.isNil
         \/ p.EndpointData.isNil
         \/ ~Routed(p)
    /\ Release
    /\ Advance
    /\ UNCHANGED <<regVars, retrieved, swaps, elements, packet, pending,
                   delivered, exiting, exited, exitWg, closePc, earlierOnce, lastOp, failures>>

\* a routed packet: its write calls are laid out; with none to make it is
\* released at once
RoutePacket ==
    /\ UNCHANGED <<flowVars, quota>>
    /\ pc = "batch"
    /\ ~elements[idx + 1]
    /\ \E p \in Packets :
         /\ ~p.PolicyData.isNil
         /\ ~p.EndpointData.isNil
         /\ Routed(p)
         /\ IF WriteCalls(p) = <<>>
            THEN /\ Release
                 /\ Advance
                 /\ UNCHANGED <<packet, pending>>
            ELSE /\ packet' = p
                 /\ pending' = WriteCalls(p)
                 /\ pc' = "write"
                 /\ UNCHANGED <<idx, released, timeNow>>
    /\ UNCHANGED <<regVars, retrieved, swaps, elements, delivered,
                   exiting, exited, exitWg, closePc, earlierOnce, lastOp, failures>>

OpRecord(kind, call, p, R, res) ==
    [kind |-> kind, aclGID |-> call.aclGID, ip |-> call.ip, tapType |-> call.tapType,
     Timestamp |-> p.Timestamp, PacketLen |-> p.PacketLen,
     found |-> res.found, created |-> res.created, target |-> res.target,
     foundSize |-> IF res.found = 0 THEN 0 ELSE R.ws[res.found].size,
     foundFirst |-> IF res.found = 0 THEN 0 ELSE R.ws[res.found].firstPacketTime,
     foundCloses |-> IF res.found = 0 THEN 0
                     ELSE res.R.ws[res.found].closes - R.ws[res.found].closes,
     createdFirst |-> IF res.created = 0 THEN 0
                      ELSE res.R.ws[res.created].firstPacketTime,
     before |-> R.counter, after |-> res.R.counter,
     openBefore |-> {i \in 1..Len(R.ws) : R.ws[i].closes = 0},
     openAfter |-> {i \in 1..Len(res.R.ws) : res.R.ws[i].closes = 0},
     \* writer.Write returned nil
     wrote |-> res.target # 0 /\ res.R.ws[res.target].nWrites >
                  (IF res.target <= Len(R.ws) THEN R.ws[res.target].nWrites ELSE 0),
     \* lastPacketTime of the target when Write is called, and on return
     lastBefore |-> IF res.target = 0 THEN 0
                    ELSE IF res.target <= Len(R.ws) THEN R.ws[res.target].lastPacketTime
                    ELSE p.Timestamp,
     lastAfter |-> IF res.target = 0 THEN 0 ELSE res.R.ws[res.target].lastPacketTime,
     \* the writer the next call with the same key finds
     lookupAfter |-> IF kind = "v4"
                     THEN LookupWriter(res.R, getWriterKey(call.ip, call.aclGID, call.tapType))
                     ELSE LET key == getWriterIpv6Key(call.ip, call.aclGID, call.tapType)
                          IN IF key \in DOMAIN res.R.writersIpv6
                             THEN ScanList(res.R, res.R.writersIpv6[key], call.ip)
                             ELSE 0,
     panicked |-> res.R.panicked]

\* one w.writePacket or w.writePacketIpv6 call of lines 424-430; after the
\* last one the packet is released
WriteCall ==
    /\ UNCHANGED <<flowVars, quota>>
    /\ pc = "write"
    /\ \E env \in Envs :
         LET call == Head(pending)
             res == IF call.v6
                    THEN writePacketIpv6(Reg, packet, call.tapType, call.ip,
                                         call.mac, call.aclGID, env)
                    ELSE writePacket(Reg, packet, call.tapType, call.ip,
                                     call.mac, call.aclGID, env)
         IN /\ SetReg(res.R)
            /\ failures' = failures + Failed(Reg, res.R, env.failed)
            /\ lastOp' = OpRecord(IF call.v6 THEN "v6" ELSE "v4", call, packet, Reg, res)
            /\ IF res.R.panicked
               THEN /\ pc' = "panic"
                    /\ UNCHANGED <<packet, pending, idx, released, timeNow>>
               ELSE /\ pending' = Tail(pending)
                    /\ IF Tail(pending) = <<>>
                       THEN Release /\ Advance /\ packet' = NoPacket
                       ELSE UNCHANGED <<pc, idx, released, packet, timeNow>>
    /\ UNCHANGED <<retrieved, swaps, elements, delivered, exiting,
                   exited, exitWg, closePc, earlierOnce>>

\* after the loop: every registered writer is finished, then exitWg.Done()
Shutdown ==
    /\ UNCHANGED <<flowVars, quota>>
    /\ pc = "shutdown"
    /\ \E failed \in MayFail :
         /\ SetReg(FinishRegistered(Reg, failed))
         /\ failures' = failures + Failed(Reg, FinishRegistered(Reg, failed), failed)
    /\ exitWg' = exitWg - 1
    /\ pc' = "done"
    /\ UNCHANGED <<retrieved, swaps, elements, idx, packet, pending, timeNow,
                   delivered, exiting, exited, closePc, released, earlierOnce, lastOp>>

\* Close: w.exitWg.Add(1) and w.exiting = true.  Process reads exitWg only
\* in Done, after it has seen exiting set, so the two writes are one step.
CloseBegin ==
    /\ UNCHANGED <<flowVars, quota>>
    /\ closePc = "idle"
    /\ exitWg' = exitWg + 1
    /\ exiting' = TRUE
    /\ closePc' = "wait"
    /\ UNCHANGED <<regVars, retrieved, swaps, elements, idx, packet, pending,
                   timeNow, delivered, pc, exited, released, earlierOnce, lastOp, failures>>

\* Close: w.exitWg.Wait() returns, w.exited = true
CloseReturn ==
    /\ UNCHANGED <<flowVars, quota>>
    /\ closePc = "wait"
    /\ exitWg = 0
    /\ exited' = TRUE
    /\ closePc' = "returned"
    /\ UNCHANGED <<regVars, retrieved, swaps, elements, idx, packet, pending,
                   timeNow, delivered, pc, exiting, exitWg, released, earlierOnce,
                   lastOp, failures>>

\* GetCounter: the counter block is swapped for a fresh one
GetCounter ==
    /\ UNCHANGED <<flowVars, quota>>
    /\ swaps < quota.swaps
    /\ swaps' = swaps + 1
    /\ retrieved' = AddCounter(retrieved, counter)
    /\ counter' = ZeroCounter
    /\ UNCHANGED <<ws, writers, writersIpv6, fs, panicked, elements, idx, packet,
                   pending, timeNow, delivered, pc, exiting, exited, exitWg,
                   closePc, released, earlierOnce, lastOp, failures>>

NextPcap ==
    \/ Gets
    \/ LoopExit
    \/ TickExit
    \/ TickRotation
    \/ DropPacket
    \/ RoutePacket
    \/ WriteCall
    \/ Shutdown
    \/ CloseBegin
    \/ CloseReturn
    \/ GetCounter

\* the worker as newWorker returns it, the flow generator before any packet
Init == quota \in Quotas /\ InitPcap /\ InitFlow

\* the same, for the runs in which only the flow generator acts
InitUdp == quota = WideQuota /\ InitPcap /\ InitFlow

SpecPcap == Init /\ [][NextPcap]_vars

\* where the goroutine that runs Process stands; only its own steps change it
processAt == <<pc, idx, delivered, Len(pending)>>

\* the guards of the steps of Process: it is not blocked in Gets, has not
\* returned and has not panicked
ProcessCanStep ==
    \/ pc = "loop" /\ (exiting \/ delivered < quota.elems)
    \/ pc \in {"batch", "write", "shutdown"}

\* weak fairness of the steps that move Process, WF_processAt(ProcessCanStep),
\* with ENABLED written out as the guard: either Process is infinitely often
\* unable to step, or it steps infinitely often
ProcessRuns ==
    \/ []<>(~ProcessCanStep)
    \/ []<><<ProcessCanStep>>_processAt

\* the worker on which Close is called: no rename and no file call fails
CloseQuota == [elems |-> MaxElems, swaps |-> MaxSwaps, failures |-> 0]

InitClose == quota = CloseQuota /\ InitPcap /\ InitFlow

\* the scheduler runs the Process goroutine while it can take a step, and
\* wakes Close once exitWg has dropped to zero
SpecPcapFair ==
    /\ InitClose
    /\ [][NextPcap]_vars
    /\ ProcessRuns
    /\ WF_vars(CloseReturn)

(***************************************************************************)
(* Claims on the pcap worker.                                              *)
(***************************************************************************)
\* writers created and not yet finished
OpenIds == {i \in 1..Len(ws) : ws[i].closes = 0}

\* the counters summed over every counter block
TotalCounter == AddCounter(retrieved, counter)

OpDelta(f) == lastOp.after[f] - lastOp.before[f]

\* the most recent call found a registered open writer for its key
OpFound == lastOp.kind # "none" /\ lastOp.found # 0

\* shouldCloseFile's condition on the writer that call found, as it was
\* before the call
OpCondition ==
    \/ lastOp.foundSize >= maxFileSize
    \/ lastOp.Timestamp - lastOp.foundFirst > maxFilePeriod

\* C1: the open writers of the IPv4 map and of the IPv6 buckets together
\* never outnumber maxConcurrentFiles, and a call that needs a new writer
\* while that many are open creates none and counts one rejection.
C1_OpenWritersWithinCap ==
    /\ Cardinality(OpenIds) <= maxConcurrentFiles
    /\ (/\ lastOp.kind # "none"
        /\ lastOp.found = 0
        /\ Cardinality(lastOp.openBefore) >= maxConcurrentFiles)
       => (lastOp.created = 0 /\ OpDelta("FileRejections") = 1)

\* C2: writers made by writePacket: at most one open writer per
\* (ip, aclGID, tapType).
C2_OneOpenWriterPerTriple ==
    \A i, j \in OpenIds :
        (/\ ~ws[i].viaIpv6 /\ ~ws[j].viaIpv6
         /\ ws[i].ip = ws[j].ip
         /\ ws[i].aclGID = ws[j].aclGID
         /\ ws[i].tapType = ws[j].tapType)
        => i = j

\* a triple whose writer was rotated: the old one finished, the new one open
C2_Witness ==
    \E i, j \in 1..Len(ws) :
        /\ i < j
        /\ ~ws[i].viaIpv6 /\ ~ws[j].viaIpv6
        /\ ws[i].ip = ws[j].ip
        /\ ws[i].aclGID = ws[j].aclGID
        /\ ws[i].tapType = ws[j].tapType
        /\ ws[i].closes = 1 /\ ws[j].closes = 0

\* C3: when Process has returned, every packet it read from the queue has
\* been released exactly once.
C3_ReleasedExactlyOnce ==
    pc = "done" => (earlierOnce /\ BatchReleasedOnce)

\* C4: when Process leaves the loop for the shutdown phase, no packet of
\* the batch it read is left that the range loop has not handled.
C4_BatchRoutedBeforeShutdown ==
    pc = "shutdown" => \A i \in (idx + 1)..Len(elements) : elements[i]

\* the state Close must find when it returns: Process has returned, every
\* writer ever created has been finished exactly once, and FileCloses =
\* FileCreations = the number of writers, summed over all counter blocks
C5_Finalized ==
    exited =>
      /\ pc = "done"
      /\ \A i \in 1..Len(ws) : ws[i].closes = 1
      /\ TotalCounter.FileCloses = TotalCounter.FileCreations
      /\ TotalCounter.FileCreations = Len(ws)

\* C5: Close returns only after finalization: once Close has returned
\* (Closed() is true), Process has returned, every writer ever created, in
\* the IPv4 map and in the IPv6 buckets, has been finished exactly once,
\* FileCloses = FileCreations over all counter blocks, and no writer or file
\* changes afterwards.
C5_CloseAfterFinalization ==
    /\ []C5_Finalized
    /\ [][exited => (ws' = ws /\ fs' = fs)]_pcapVars

\* Close has returned with writers of both registries created
C5_Witness ==
    /\ exited
    /\ \E i, j \in 1..Len(ws) : ws[i].viaIpv6 /\ ~ws[j].viaIpv6

\* C6: a finished writer has its final file and no temp file of its own;
\* a writer not finished has its temp file.
C6_FinalizedRenamed ==
    \A i \in 1..Len(ws) :
        IF ws[i].closes > 0
        THEN /\ getFilename(ws[i]) \in DOMAIN fs
             /\ ~(ws[i].tempFilename \in DOMAIN fs /\ fs[ws[i].tempFilename] = i)
        ELSE ws[i].tempFilename \in DOMAIN fs

C8_SizeBound ==
    \A i \in 1..Len(ws) :
        ws[i].nWrites > 0 =>
          /\ ws[i].sizeBefore < maxFileSize
          /\ ws[i].size = ws[i].sizeBefore + ws[i].lastLen
          /\ ws[i].size <= maxFileSize + ws[i].lastLen

\* a writer appended to at the edge: one unit below maxFileSize before, and
\* above it after
C8_Witness ==
    \E i \in 1..Len(ws) :
        /\ ws[i].nWrites = 2
        /\ ws[i].sizeBefore = maxFileSize - 1
        /\ ws[i].size > maxFileSize

\* C12: no panic escapes Process, whatever the queue delivers.
C12_ProcessNeverAborts == ~panicked /\ pc # "panic"

\* C13: a writePacketIpv6 call for address ip hands the packet only to a
\* writer whose recorded IPv6 address is ip, all 16 bytes of it.
C13_FullAddressMatch ==
    (lastOp.kind = "v6" /\ lastOp.target # 0) =>
        ws[lastOp.target].ip6 = lastOp.ip

\* C14: writers made by writePacketIpv6: at most one open writer per
\* (address, aclGID, tapType), and a call that finds a writer it need not
\* rotate creates none.
C14_OneOpenWriterPerAddress ==
    /\ \A i, j \in OpenIds :
          (/\ ws[i].viaIpv6 /\ ws[j].viaIpv6
           /\ ws[i].ip6 = ws[j].ip6
           /\ ws[i].ip = ws[j].ip
           /\ ws[i].aclGID = ws[j].aclGID
           /\ ws[i].tapType = ws[j].tapType)
          => i = j
    /\ (lastOp.kind = "v6" /\ lastOp.found # 0 /\ ~OpCondition) => lastOp.created = 0

\* the most recent call got a writer whose Write returned an error
OpWriteFailed == lastOp.kind # "none" /\ lastOp.target # 0 /\ ~lastOp.wrote

\* C17: when Write fails in writePacket or writePacketIpv6,
\* FileWritingFailures grows by exactly one, the writer stays open and
\* registered, its lastPacketTime is not advanced, the buffered counters do
\* not change, and the next call with the same key finds that same writer.
C17_WriteFailureFrame ==
    OpWriteFailed =>
        /\ OpDelta("FileWritingFailures") = 1
        /\ lastOp.target \in lastOp.openAfter
        /\ lastOp.lastAfter = lastOp.lastBefore
        /\ OpDelta("BufferedCount") = 0
        /\ OpDelta("BufferedBytes") = 0
        /\ lastOp.lookupAfter = lastOp.target

\* the most recent call found no registered writer, got nil from
\* generateWrappedWriter and returned
OpCreationFailed ==
    /\ lastOp.kind # "none"
    /\ lastOp.found = 0
    /\ lastOp.created = 0
    /\ ~lastOp.panicked

\* C18: when no writer is registered for the key and generateWrappedWriter
\* returns nil, exactly one of FileRejections and FileCreationFailures grows
\* by one, FileCreations does not change, the packet is written to no file
\* and the set of open writers is as before.
C18_CreationFailureFrame ==
    OpCreationFailed =>
        /\ OpDelta("FileRejections") + OpDelta("FileCreationFailures") = 1
        /\ OpDelta("FileRejections") \in {0, 1}
        /\ OpDelta("FileCreations") = 0
        /\ lastOp.target = 0
        /\ ~lastOp.wrote
        /\ OpDelta("BufferedCount") = 0
        /\ OpDelta("BufferedBytes") = 0
        /\ OpDelta("FileWritingFailures") = 0
        /\ lastOp.openAfter = lastOp.openBefore

\* C18 witness: one call was rejected at the cap
C18_Witness ==
    OpCreationFailed /\ OpDelta("FileRejections") = 1

\* the writePacket / writePacketIpv6 calls Process has made for the packet
\* it holds; the call that panicked was made
CallsMade ==
    Len(WriteCalls(packet)) - Len(pending) + (IF pc = "panic" THEN 1 ELSE 0)

\* (size of the emit set) times (number of capturing actions with ACLGID > 0)
CallsDue(p) ==
    Len(EmitSet(p)) * Cardinality({k \in 1..Len(p.PolicyData.AclActions) :
                                      Capturing(p.PolicyData.AclActions[k])})

\* C19: for one packet the calls made number (size of the emit set) times
\* (number of capturing actions with ACLGID > 0); while Process is among
\* them the calls still to make are the rest of that list, in emit order
\* under each action, and once Process makes no further call for the
\* packet all of them have been made.
C19_WriteCallCount ==
    /\ pc = "write" =>
          /\ Len(WriteCalls(packet)) = CallsDue(packet)
          /\ CallsMade < CallsDue(packet)
          /\ pending = SubSeq(WriteCalls(packet), CallsMade + 1, CallsDue(packet))
    /\ pc = "panic" => CallsMade = CallsDue(packet)

\* C21: any two distinct finished writers of the worker were renamed to
\* different final names, and the file under a finished writer's final name
\* is that writer's own.
C21_FinalNamesDistinct ==
    \A i, j \in 1..Len(ws) :
        (ws[i].closes > 0 /\ ws[j].closes > 0 /\ ws[i].renamed /\ ws[j].renamed) =>
            /\ i # j => ws[i].finalName # ws[j].finalName
            /\ ws[i].finalName \in DOMAIN fs
            /\ fs[ws[i].finalName] = i

\* the registry key of a write call, had it the tap type t
CallKey(call, t) ==
    IF call.v6 THEN getWriterIpv6Key(call.ip, call.aclGID, t)
    ELSE getWriterKey(call.ip, call.aclGID, t)

\* C22: the write calls of a packet from an ISP port carry a tap type whose
\* registry key and whose file name segment differ from those of the ToR
\* tap type for the same address and ACLGID, so such a packet never shares
\* a writer with a packet from a ToR port.
C22_IspApartFromTor ==
    (pc = "write" /\ isISP(packet.InPort)) =>
        \A k \in 1..Len(pending) :
            /\ CallKey(pending[k], pending[k].tapType) # CallKey(pending[k], ToR)
            /\ tapTypeToString(pending[k].tapType) # tapTypeToString(ToR)

\* C16: once Close has set exiting, Process leaves the loop, finishes every
\* registered writer and signals completion, and Close returns.
C16_CloseEventuallyReturns ==
    exiting ~> (pc = "done" /\ exited)

\* the step of Process that handles a tick while exiting is false
TickStep ==
    /\ pc = "batch"
    /\ elements[idx + 1]
    /\ ~exiting
    /\ idx' = idx + 1

\* the registered writers a tick at timeNow must finish
TickAged ==
    {i \in MapIds(Reg) \cup ListIds(Reg) : timeNow - ws[i].firstPacketTime > maxFilePeriod}

\* C15: a tick handled while exiting is false finishes exactly the
\* registered writers with timeNow - firstPacketTime > maxFilePeriod and
\* removes them from the registry; every other writer, its registration
\* and its file are as before, FileCloses grows by the number of writers
\* finished and no other counter changes; with no aged writer nothing
\* changes.
C15_TickFrame ==
    [][TickStep =>
         /\ Len(ws') = Len(ws)
         /\ \A i \in 1..Len(ws) :
              IF i \in TickAged
              THEN /\ ws'[i].closes = ws[i].closes + 1
                   /\ i \notin (MapIds(Reg) \cup ListIds(Reg))'
              ELSE /\ ws'[i] = ws[i]
                   /\ (i \in MapIds(Reg)) = (i \in MapIds(Reg)')
                   /\ (i \in ListIds(Reg)) = (i \in ListIds(Reg)')
                   /\ (ws[i].closes = 0 /\ ws[i].tempFilename \in DOMAIN fs)
                        => /\ ws[i].tempFilename \in DOMAIN fs'
                           /\ fs'[ws[i].tempFilename] = fs[ws[i].tempFilename]
         /\ counter' = [counter EXCEPT !.FileCloses = @ + Cardinality(TickAged)]
         /\ TickAged = {} => UNCHANGED regVars
    ]_vars

(***************************************************************************)
(* The flow generator: processUdpPacket, one action per step of a thread.  *)
(* The steps are the accesses to what threads share: the shard's lock and  *)
(* the fields of f.stats, which the code reads and writes without a common *)
(* lock (only CurrNumFlows is added to atomically).                        *)
(***************************************************************************)
Goto(t, to, read) == th' = [th EXCEPT ![t].pc = to, ![t].read = read]

\* a thread is handed a packet: hash and flowCache of lines 10-11
UdpBegin(t) ==
    /\ th[t].pc = "idle"
    /\ processed < MaxUdpPackets
    /\ \E meta \in UdpMetas(processed) :
         th' = [th EXCEPT ![t] = [pc |-> "lock", meta |-> meta, read |-> 0]]
    /\ processed' = processed + 1
    /\ UNCHANGED <<hashMap, locks, stats, lastUdp>>
    /\ UNCHANGED pcapVars

\* lines 12-14, 26: the lock is taken, a flow matches and is updated, the
\* lock is released
UdpMatch(t) ==
    LET meta == th[t].meta
        s == ShardOf(meta)
        m == keyMatch(hashMap[s], meta)
        updated == updateUdpFlow(hashMap[s][m.index], meta, m.reply)
    IN /\ th[t].pc = "lock"
       /\ locks[s] = 0
       /\ m.index # 0
       /\ hashMap' = [hashMap EXCEPT ![s][m.index] = updated]
       /\ th' = [th EXCEPT ![t] = Idle]
       /\ UNCHANGED <<locks, stats, processed>>
       /\ lastUdp' = [kind |-> "match", meta |-> meta, reply |-> m.reply,
                      shard |-> s, index |-> m.index,
                      before |-> hashMap, after |-> hashMap',
                      statsBefore |-> stats, statsAfter |-> stats',
                      locksAfter |-> locks']
       /\ UNCHANGED pcapVars

\* lines 12-13, 15: the lock is taken and no flow matches
UdpMiss(t) ==
    LET meta == th[t].meta
        s == ShardOf(meta)
    IN /\ th[t].pc = "lock"
       /\ locks[s] = 0
       /\ keyMatch(hashMap[s], meta).index = 0
       /\ locks' = [locks EXCEPT ![s] = t]
       /\ Goto(t, "check", 0)
       /\ UNCHANGED <<hashMap, stats, processed, lastUdp>>
       /\ UNCHANGED pcapVars

\* line 16: f.stats.CurrNumFlows is read and compared to the limit
UdpCheck(t) ==
    /\ th[t].pc = "check"
    /\ Goto(t, IF stats.CurrNumFlows >= flowLimitNum THEN "flood" ELSE "init", 0)
    /\ UNCHANGED <<hashMap, locks, stats, processed, lastUdp>>
    /\ UNCHANGED pcapVars

\* line 17, the read of f.stats.FloodDropPackets++
UdpFloodRead(t) ==
    /\ th[t].pc = "flood"
    /\ Goto(t, "floodWrite", stats.FloodDropPackets)
    /\ UNCHANGED <<hashMap, locks, stats, processed, lastUdp>>
    /\ UNCHANGED pcapVars

\* lines 17-19: the write of f.stats.FloodDropPackets++, Unlock, return
UdpFloodWrite(t) ==
    /\ th[t].pc = "floodWrite"
    /\ stats' = [stats EXCEPT !.FloodDropPackets = th[t].read + 1]
    /\ locks' = [locks EXCEPT ![ShardOf(th[t].meta)] = 0]
    /\ th' = [th EXCEPT ![t] = Idle]
    /\ UNCHANGED <<hashMap, processed>>
    /\ lastUdp' = [kind |-> "flood", meta |-> th[t].meta, reply |-> FALSE,
                   shard |-> ShardOf(th[t].meta), index |-> 0,
                   before |-> hashMap, after |-> hashMap',
                   statsBefore |-> stats, statsAfter |-> stats',
                   locksAfter |-> locks']
    /\ UNCHANGED pcapVars

\* lines 21-22: initUdpFlow, and the read of f.stats.TotalNumFlows++
UdpTotalRead(t) ==
    /\ th[t].pc = "init"
    /\ Goto(t, "totalWrite", stats.TotalNumFlows)
    /\ UNCHANGED <<hashMap, locks, stats, processed, lastUdp>>
    /\ UNCHANGED pcapVars

\* lines 22-23: the write of f.stats.TotalNumFlows++, and addFlow
UdpTotalWrite(t) ==
    LET meta == th[t].meta
        s == ShardOf(meta)
    IN /\ th[t].pc = "totalWrite"
       /\ stats' = [stats EXCEPT !.TotalNumFlows = th[t].read + 1]
       /\ hashMap' = [hashMap EXCEPT ![s] = addFlow(@, initUdpFlow(meta))]
       /\ Goto(t, "count", 0)
       /\ UNCHANGED <<locks, processed, lastUdp>>
       /\ UNCHANGED pcapVars

\* lines 24, 26: atomic.AddInt32(&f.stats.CurrNumFlows, 1), Unlock
UdpCount(t) ==
    /\ th[t].pc = "count"
    /\ stats' = [stats EXCEPT !.CurrNumFlows = @ + 1]
    /\ locks' = [locks EXCEPT ![ShardOf(th[t].meta)] = 0]
    /\ th' = [th EXCEPT ![t] = Idle]
    /\ UNCHANGED <<hashMap, processed, lastUdp>>
    /\ UNCHANGED pcapVars

NextFlow ==
    \E t \in Threads :
        \/ UdpBegin(t)
        \/ UdpMatch(t)
        \/ UdpMiss(t)
        \/ UdpCheck(t)
        \/ UdpFloodRead(t)
        \/ UdpFloodWrite(t)
        \/ UdpTotalRead(t)
        \/ UdpTotalWrite(t)
        \/ UdpCount(t)

SpecFlow == InitUdp /\ [][NextFlow]_vars

(***************************************************************************)
(* Claims on the flow generator.                                           *)
(***************************************************************************)
RECURSIVE SumLen(_, _)
SumLen(h, S) ==
    IF S = {} THEN 0
    ELSE LET s == CHOOSE x \in S : TRUE
         IN Len(h[s]) + SumLen(h, S \ {s})

\* the flows of all shards
LiveFlows == SumLen(hashMap, Shards)

\* C9: the flows of all shards together, and CurrNumFlows, never exceed
\* flowLimitNum, and no shard holds more than flowLimitNum flows.
C9_FlowLimit ==
    /\ LiveFlows <= flowLimitNum
    /\ stats.CurrNumFlows <= flowLimitNum
    /\ \A s \in Shards : Len(hashMap[s]) <= flowLimitNum

\* C10: a packet that matches a flow creates none and leaves CurrNumFlows
\* and TotalNumFlows as they were; it adds one packet and its bytes to the
\* peer reply selects, on the record that matched, and to nothing else; the
\* timeout becomes EstablishedRst if reply and stays as it was if not.  So
\* a flow that has seen no reply still has the Opening timeout.
C10_MatchMerges ==
    /\ lastUdp.kind = "match" =>
         LET s == lastUdp.shard
             i == lastUdp.index
             old == lastUdp.before[s][i]
             new == lastUdp.after[s][i]
             meta == lastUdp.meta
             hit == IF lastUdp.reply THEN "FlowMetricsPeerDst" ELSE "FlowMetricsPeerSrc"
             other == IF lastUdp.reply THEN "FlowMetricsPeerSrc" ELSE "FlowMetricsPeerDst"
         IN /\ SumLen(lastUdp.after, Shards) = SumLen(lastUdp.before, Shards)
            /\ \A r \in Shards : \A j \in 1..Len(lastUdp.before[r]) :
                  (r # s \/ j # i) => lastUdp.after[r][j] = lastUdp.before[r][j]
            /\ lastUdp.statsAfter.CurrNumFlows = lastUdp.statsBefore.CurrNumFlows
            /\ lastUdp.statsAfter.TotalNumFlows = lastUdp.statsBefore.TotalNumFlows
            /\ new.src = old.src /\ new.dst = old.dst
            /\ lastUdp.reply = (meta.src = old.dst /\ meta.dst = old.src)
            /\ ~lastUdp.reply => (meta.src = old.src /\ meta.dst = old.dst)
            /\ new[hit].PacketCount = old[hit].PacketCount + 1
            /\ new[hit].TotalPacketCount = old[hit].TotalPacketCount + 1
            /\ new[hit].ByteCount = old[hit].ByteCount + meta.PacketLen
            /\ new[hit].TotalByteCount = old[hit].TotalByteCount + meta.PacketLen
            /\ new[other] = old[other]
            /\ new.timeout = IF lastUdp.reply THEN TimeoutEstablishedRst ELSE old.timeout
    /\ \A s \in Shards : \A i \in 1..Len(hashMap[s]) :
         hashMap[s][i].FlowMetricsPeerDst.TotalPacketCount = 0
           => hashMap[s][i].timeout = TimeoutOpening

\* a second packet of the same 5-tuple has been merged: one flow, source
\* packet count 2, timeout still Opening
C10_Witness ==
    /\ lastUdp.kind = "match"
    /\ ~lastUdp.reply
    /\ LET new == lastUdp.after[lastUdp.shard][lastUdp.index]
       IN /\ new.FlowMetricsPeerSrc.PacketCount = 2
          /\ new.timeout = TimeoutOpening
    /\ SumLen(lastUdp.after, Shards) = 1

\* C11: a call that drops its packet (no flow matched, limit reached) adds
\* exactly one to FloodDropPackets, leaves the flows of every shard,
\* CurrNumFlows and TotalNumFlows as they were and returns with the shard's
\* lock released; a packet that matches a flow is merged even when the
\* limit is reached.
C11_FloodDropFrame ==
    /\ lastUdp.kind = "flood" =>
         /\ lastUdp.statsAfter.FloodDropPackets
              = lastUdp.statsBefore.FloodDropPackets + 1
         /\ lastUdp.after = lastUdp.before
         /\ lastUdp.statsAfter.CurrNumFlows = lastUdp.statsBefore.CurrNumFlows
         /\ lastUdp.statsAfter.TotalNumFlows = lastUdp.statsBefore.TotalNumFlows
         /\ lastUdp.locksAfter[lastUdp.shard] = 0
    /\ (lastUdp.kind = "match" /\ lastUdp.statsBefore.CurrNumFlows >= flowLimitNum) =>
         lastUdp.after # lastUdp.before

\* no thread is inside processUdpPacket
Quiescent == \A t \in Threads : th[t].pc = "idle"

\* C20: when every call has completed, TotalNumFlows and CurrNumFlows both
\* equal the number of flows inserted into the shards.
C20_CountersExact ==
    Quiescent =>
      /\ stats.TotalNumFlows = LiveFlows
      /\ stats.CurrNumFlows = LiveFlows

====
